---- MODULE Spec2Model ----
(***************************************************************************)
(* Model of the five Genkit flows of ColorME2: clothing analysis, color    *)
(* analysis, outfit suggestion, outfit inspiration, outfit visualization.  *)
(*                                                                         *)
(* One behaviour is one flow invocation.  The hosted model is the          *)
(* environment: every model call either throws a provider error or returns *)
(* an arbitrary value drawn from a bounded set.                            *)
(*                                                                         *)
(* Text is a sequence of phrases.  toLowerCase maps every phrase to its    *)
(* lower-case form and includes(s, kw) holds when kw is one of the phrases *)
(* of s, so keyword matching is computed, phrase by phrase.                *)
(***************************************************************************)
EXTENDS Integers, Sequences, FiniteSets, TLC

VARIABLES flow, input, pc, attempt, delay, callLog, delays, thrown,
          raw, output, error, result, textOutput, media, promptSegments,
          inv, frame

vars == <<flow, input, pc, attempt, delay, callLog, delays, thrown,
          raw, output, error, result, textOutput, media, promptSegments,
          inv, frame>>

(***************************************************************************)
(* Bounds of the model.                                                    *)
(***************************************************************************)
\* longest all-valid recommendedColors list the model returns
MaxRecommended == 5
\* longest all-valid avoidColors list the model returns
MaxAvoid == 3
\* most items in an outfit-visualization request
MaxItems == 2

(***************************************************************************)
(* JavaScript values.  A field is a string, a non-zero number or missing.  *)
(***************************************************************************)
Str(v) == [k |-> "str", v |-> v]
Absent == [k |-> "absent", v |-> <<>>]
Num == [k |-> "num", v |-> <<>>]
Null == [k |-> "null"]
\* an array of color entries: its length and the indices whose hex code
\* does not match /^#[0-9A-F]{6}$/i
Arr(n, b) == [k |-> "arr", len |-> n, bad |-> b]
AbsentArr == [k |-> "absent", len |-> 0, bad |-> {}]

\* JavaScript truthiness of a field: undefined and '' are falsy
Truthy(f) == f.k = "num" \/ (f.k = "str" /\ f.v # <<>>)

LowerPhrase(p) ==
  CASE p = "Rate Limit" -> "rate limit"
    [] p = "TRY AGAIN" -> "try again"
    [] p = "Service Unavailable" -> "service unavailable"
    [] p = "Niet te bepalen" -> "niet te bepalen"
    [] p = "GEEN GEZICHT" -> "geen gezicht"
    [] p = "Onvoldoende Informatie" -> "onvoldoende informatie"
    [] p = "Onbekende fout opgetreden" -> "onbekende fout opgetreden"
    [] p = "Invalid Argument" -> "invalid argument"
    [] p = "Model Is Overloaded" -> "model is overloaded"
    [] p = "MODEL_IS_OVERLOADED" -> "model_is_overloaded"
    [] p = "Resource Has Been Exhausted" -> "resource has been exhausted"
    [] p = "Service Available" -> "service available"
    [] OTHER -> p

toLowerCaseIdentity(s) == s
toLowerCase(s) == [i \in DOMAIN s |-> LowerPhrase(s[i])]

includes(s, kw) == \E i \in DOMAIN s : s[i] = kw

RECURSIVE JoinWith(_, _)
\* Array.prototype.join over pieces that are themselves phrase sequences
JoinWith(pieces, sep) ==
  IF pieces = <<>> THEN <<>>
  ELSE IF Len(pieces) = 1 THEN pieces[1]
  ELSE pieces[1] \o <<sep>> \o JoinWith(Tail(pieces), sep)

RECURSIVE SortedSeq(_)
SortedSeq(S) ==
  IF S = {} THEN <<>>
  ELSE LET m == CHOOSE x \in S : \A y \in S : x <= y
       IN <<m>> \o SortedSeq(S \ {m})

(***************************************************************************)
(* Errors.  name is the class, site the throw statement that created it.   *)
(***************************************************************************)
MkError(n, s, m) == [name |-> n, site |-> s, message |-> m, issues |-> <<>>]
NoError == MkError("none", "none", Absent)
NoValue == [k |-> "none"]

Pending == [status |-> "pending", value |-> NoValue, error |-> NoError]
Succeeded(v) == [status |-> "ok", value |-> v, error |-> NoError]
Failed(e) == [status |-> "failed", value |-> NoValue, error |-> e]

\* error.message || dflt
MessageOr(e, dflt) == IF Truthy(e.message) THEN e.message.v ELSE dflt

(***************************************************************************)
(* Retry configuration shared by the clothing and color flows.             *)
(***************************************************************************)
maxRetries4 == 3 + 1
maxRetries == 3
initialDelay == 2000

BackoffTriple(d) == d * 3
Backoff(d) == d * 2

retryableKeywordsNoTryAgain ==
  {"503", "service unavailable", "model is overloaded", "model_is_overloaded",
   "resource has been exhausted", "rate limit"}
retryableKeywords ==
  {"503", "service unavailable", "model is overloaded", "model_is_overloaded",
   "resource has been exhausted", "rate limit", "try again"}

IsRetryableError(e) ==
  LET errorMessage == toLowerCase(MessageOr(e, <<"Onbekende fout opgetreden">>))
  IN \E kw \in retryableKeywords : includes(errorMessage, kw)

(***************************************************************************)
(* Zod schemas.  Parse(v) is the sequence of issues of schema.parse(v), in *)
(* schema order; <<>> means the parse returns.                             *)
(***************************************************************************)
Issue(p, m) == [path |-> p, message |-> m]

StringIssues(p, f) ==
  IF f.k = "str" THEN <<>>
  ELSE IF f.k = "absent" THEN <<Issue(p, "Required")>>
  ELSE <<Issue(p, "Expected string, received number")>>

\* z.object({photoDataUri: z.string()}) and z.object({userDataUri: z.string()})
DataUriInputIssues(i) == StringIssues(<<"dataUri">>, i.dataUri)

AnalyzeClothingItemOutputSchema(o) ==
  StringIssues(<<"itemName">>, o.itemName)
  \o StringIssues(<<"itemType">>, o.itemType)
  \o StringIssues(<<"itemColor">>, o.itemColor)
  \o StringIssues(<<"itemStyle">>, o.itemStyle)
  \o StringIssues(<<"fullDescription">>, o.fullDescription)

\* the value AnalyzeClothingItemOutputSchema.parse(o) returns when there is no
\* issue: a new object with the keys of the schema, unknown keys stripped
AnalyzeClothingItemOutputParsed(o) == [o EXCEPT !.extra = Absent]

ReturnValueParsed(f, o) ==
  IF f = "clothing" THEN AnalyzeClothingItemOutputParsed(o) ELSE o
\* Schema.parse(output); return output: the result of the parse is dropped
\* and the handler returns the object it parsed
ReturnValue(f, o) == o

hexMessage == "Moet een geldige hex-kleurcode zijn (bijv. #FF5733)."

\* z.array(ColorInfoSchema): one issue per entry whose hex fails the regex;
\* no minimum length is declared
ColorArrayIssues(p, a) ==
  IF a.k = "absent" THEN <<Issue(p, "Required")>>
  ELSE LET idx == SortedSeq(a.bad)
       IN [n \in 1..Len(idx) |-> Issue(p \o <<ToString(idx[n]), "hex">>, hexMessage)]

CharacteristicsIssues(c) ==
  IF c.k = "absent" THEN <<Issue(<<"characteristics">>, "Required")>>
  ELSE StringIssues(<<"characteristics", "skinTone">>, c.skinTone)
       \o StringIssues(<<"characteristics", "hairColor">>, c.hairColor)
       \o StringIssues(<<"characteristics", "eyeColor">>, c.eyeColor)

PerformColorAnalysisOutputSchemaNoSeason(o) ==
  StringIssues(<<"analysisDescription">>, o.analysisDescription)
  \o CharacteristicsIssues(o.characteristics)
  \o ColorArrayIssues(<<"recommendedColors">>, o.recommendedColors)
  \o ColorArrayIssues(<<"avoidColors">>, o.avoidColors)
  \o StringIssues(<<"paletteDescription">>, o.paletteDescription)
PerformColorAnalysisOutputSchema(o) ==
  StringIssues(<<"seasonType">>, o.seasonType)
  \o StringIssues(<<"analysisDescription">>, o.analysisDescription)
  \o CharacteristicsIssues(o.characteristics)
  \o ColorArrayIssues(<<"recommendedColors">>, o.recommendedColors)
  \o ColorArrayIssues(<<"avoidColors">>, o.avoidColors)
  \o StringIssues(<<"paletteDescription">>, o.paletteDescription)

OutputSchema(f, o) ==
  IF f = "clothing" THEN AnalyzeClothingItemOutputSchema(o)
  ELSE PerformColorAnalysisOutputSchema(o)

\* ZodError: its message is the JSON text of the issues, paths included
ZodError(iss) ==
  [name |-> "ZodError", site |-> "parse",
   message |-> Str(JoinWith([n \in 1..Len(iss) |->
                               iss[n].path \o <<iss[n].message>>], ",")),
   issues |-> iss]

\* e.path.join('.') || dflt
PathText(p, dflt) ==
  IF p = <<>> THEN <<dflt>> ELSE JoinWith([n \in 1..Len(p) |-> <<p[n]>>], ".")

ValidationErrorFirstOnly(f, e) ==
  IF f = "clothing"
  THEN MkError("Error", "zodWrap",
         Str(<<"AI-output validatiefout: De data van de AI voldoet niet aan het verwachte formaat. Details:">>
             \o PathText(e.issues[1].path, "item") \o <<":", e.issues[1].message>>))
  ELSE MkError("Error", "zodWrap",
         Str(<<"AI-output validatiefout:">>
             \o <<"Veld '">> \o PathText(e.issues[1].path, "root")
             \o <<"':", e.issues[1].message>>
             \o <<". Controleer of de AI de data in het juiste formaat retourneert, inclusief het correcte aantal kleuren indien een seizoen is bepaald.">>))

\* the Error thrown from the ZodError branch of the catch block
ValidationError(f, e) ==
  IF f = "clothing"
  THEN MkError("Error", "zodWrap",
         Str(<<"AI-output validatiefout: De data van de AI voldoet niet aan het verwachte formaat. Details:">>
             \o JoinWith([n \in 1..Len(e.issues) |->
                            PathText(e.issues[n].path, "item")
                            \o <<":", e.issues[n].message>>], ";")))
  ELSE MkError("Error", "zodWrap",
         Str(<<"AI-output validatiefout:">>
             \o JoinWith([n \in 1..Len(e.issues) |->
                            <<"Veld '">> \o PathText(e.issues[n].path, "root")
                            \o <<"':", e.issues[n].message>>], ";")
             \o <<". Controleer of de AI de data in het juiste formaat retourneert, inclusief het correcte aantal kleuren indien een seizoen is bepaald.">>))

ExhaustedPrefix(f) ==
  <<"AI-analyse mislukt na", ToString(maxRetries),
    "pogingen vanwege API-problemen (bijv. overbelasting,", "rate limit">>
  \o (IF f = "clothing" THEN <<"s). Laatste fout:">>
      ELSE <<"s). Probeer het later opnieuw. Fout:">>)

ExhaustedErrorNoCause(f, e) ==
  MkError("Error", "exhausted", Str(ExhaustedPrefix(f) \o <<"Onbekende API fout">>))
\* the Error thrown when the last attempt fails with a retryable error
ExhaustedError(f, e) ==
  MkError("Error", "exhausted",
          Str(ExhaustedPrefix(f) \o MessageOr(e, <<"Onbekende API fout">>)))

EmptyOutputErrorTryAgain ==
  MkError("Error", "emptyOutput",
          Str(<<"AI-analyse antwoordde, maar de output was leeg.", "try again">>))
EmptyOutputError ==
  MkError("Error", "emptyOutput",
          Str(<<"AI-analyse antwoordde, maar de output was leeg of niet in het verwachte formaat.">>))

FallThroughError(f) ==
  MkError("Error", "fallThrough",
          Str(IF f = "clothing"
              THEN <<"AI-analyse is onverwacht mislukt na alle pogingen.">>
              ELSE <<"De kleuranalyse is onverwacht mislukt na alle pogingen.">>))

TypeError(m) == MkError("TypeError", "postProcessing", Str(<<m>>))

(***************************************************************************)
(* Post-processing of the color analysis output (the season normalizer).   *)
(***************************************************************************)
Sentinel == "Niet te bepalen"

unanalyzableSeasonKeywords ==
  {"niet te bepalen", "onvoldoende informatie", "kan niet analyseren",
   "geen gezicht", "onmogelijk te bepalen"}

fallbackDescription ==
  <<"De AI kon geen betrouwbare kleuranalyse uitvoeren op basis van de verstrekte afbeelding.",
    "Zorg voor een duidelijke foto van het gezicht bij goed daglicht, zonder zware make-up en met een neutrale achtergrond.">>

fallbackPalette == <<Sentinel, "omdat het seizoen niet vastgesteld kon worden.">>

SentinelCharacteristics ==
  [k |-> "obj", skinTone |-> Str(<<Sentinel>>), hairColor |-> Str(<<Sentinel>>),
   eyeColor |-> Str(<<Sentinel>>)]

HasUnanalyzableKeyword(s) ==
  \E kw \in unanalyzableSeasonKeywords :
     includes(toLowerCase(s), LowerPhrase(kw))

\* output.seasonType && keywords.some(...)
isUnanalyzable(o) ==
  Truthy(o.seasonType) /\ HasUnanalyzableKeyword(o.seasonType.v)

Returned(v) == [threw |-> FALSE, value |-> v, error |-> NoError]
Threw(e) == [threw |-> TRUE, value |-> NoValue, error |-> e]

NormalizeUnanalyzableAlwaysFallback(o) ==
  LET o1 == [o EXCEPT !.recommendedColors = Arr(0, {}), !.avoidColors = Arr(0, {})]
      d  == o1.analysisDescription
      c  == o1.characteristics
      p  == o1.paletteDescription
      o2 == [o1 EXCEPT !.analysisDescription = Str(fallbackDescription)]
      o3 == IF c.k = "absent"
               \/ ~includes(toLowerCase(c.skinTone.v), "niet te bepalen")
            THEN [o2 EXCEPT !.characteristics = SentinelCharacteristics]
            ELSE o2
      o4 == IF ~Truthy(p) \/ ~includes(toLowerCase(p.v), "niet te bepalen")
            THEN [o3 EXCEPT !.paletteDescription = Str(fallbackPalette)]
            ELSE o3
  IN IF d.k = "num"
     THEN Threw(TypeError("output.analysisDescription.toLowerCase is not a function"))
     ELSE IF c.k # "absent" /\ c.skinTone.k = "absent"
     THEN Threw(TypeError("Cannot read properties of undefined (reading 'toLowerCase')"))
     ELSE IF c.k # "absent" /\ c.skinTone.k = "num"
     THEN Threw(TypeError("output.characteristics.skinTone.toLowerCase is not a function"))
     ELSE IF p.k = "num"
     THEN Threw(TypeError("output.paletteDescription.toLowerCase is not a function"))
     ELSE Returned(o4)

\* the if (isUnanalyzable) branch
NormalizeUnanalyzable(o) ==
  LET o1 == [o EXCEPT !.recommendedColors = Arr(0, {}), !.avoidColors = Arr(0, {})]
      d  == o1.analysisDescription
      c  == o1.characteristics
      p  == o1.paletteDescription
      o2 == IF ~Truthy(d) \/ ~HasUnanalyzableKeyword(d.v)
            THEN [o1 EXCEPT !.analysisDescription = Str(fallbackDescription)]
            ELSE o1
      o3 == IF c.k = "absent"
               \/ ~includes(toLowerCase(c.skinTone.v), "niet te bepalen")
            THEN [o2 EXCEPT !.characteristics = SentinelCharacteristics]
            ELSE o2
      o4 == IF ~Truthy(p) \/ ~includes(toLowerCase(p.v), "niet te bepalen")
            THEN [o3 EXCEPT !.paletteDescription = Str(fallbackPalette)]
            ELSE o3
  IN IF d.k = "num"
     THEN Threw(TypeError("output.analysisDescription.toLowerCase is not a function"))
     ELSE IF c.k # "absent" /\ c.skinTone.k = "absent"
     THEN Threw(TypeError("Cannot read properties of undefined (reading 'toLowerCase')"))
     ELSE IF c.k # "absent" /\ c.skinTone.k = "num"
     THEN Threw(TypeError("output.characteristics.skinTone.toLowerCase is not a function"))
     ELSE IF p.k = "num"
     THEN Threw(TypeError("output.paletteDescription.toLowerCase is not a function"))
     ELSE Returned(o4)

NormalizeDeterminedClearing(o) ==
  IF o.recommendedColors.k = "absent" \/ o.avoidColors.k = "absent"
  THEN Threw(TypeError("Cannot read properties of undefined (reading 'length')"))
  ELSE Returned([o EXCEPT
         !.recommendedColors = IF @.len < 5 /\ @.len > 0 THEN Arr(0, {}) ELSE @,
         !.avoidColors = IF @.len < 3 /\ @.len > 0 THEN Arr(0, {}) ELSE @])

\* the else branch: only reads the two lengths
NormalizeDetermined(o) ==
  IF o.recommendedColors.k = "absent" \/ o.avoidColors.k = "absent"
  THEN Threw(TypeError("Cannot read properties of undefined (reading 'length')"))
  ELSE Returned(o)

NormalizeSkipped(o) == Returned(o)
\* the post-processing block
Normalize(o) ==
  IF o.seasonType.k = "num"
  THEN Threw(TypeError("output.seasonType.toLowerCase is not a function"))
  ELSE IF isUnanalyzable(o) THEN NormalizeUnanalyzable(o)
  ELSE NormalizeDetermined(o)

(***************************************************************************)
(* The environment: requests of the caller and answers of the model.       *)
(***************************************************************************)
PngDataUri == <<"data:image", "/png", ";base64,", "iVBORw0KGgo=">>
HttpsUrl == <<"https://", "example.com/photo.png">>

DataUriInputs ==
  {[dataUri |-> f] : f \in {Str(PngDataUri), Str(HttpsUrl), Absent, Num}}

ProviderErrors ==
  {MkError("Error", "provider", m) :
     m \in {Str(<<"Rate Limit", "exceeded">>), Str(<<"503", "Service Unavailable">>),
            Str(<<"Invalid Argument">>), Absent}}

ClothingFieldValues == {Str(<<"Blauw">>), Absent, Num}

\* the answers of the clothing model; extra is a key the schema does not name
ClothingOutputs ==
  [k : {"obj"}, itemName : ClothingFieldValues, itemType : ClothingFieldValues,
   itemColor : ClothingFieldValues, itemStyle : ClothingFieldValues,
   fullDescription : ClothingFieldValues, extra : {Absent, Str(<<"confidence 0.9">>)}]

Seasons ==
  {Str(<<"Lente">>), Str(<<"Paars">>), Str(<<Sentinel>>), Str(<<"niet te bepalen">>),
   Str(<<"GEEN GEZICHT", "zichtbaar">>), Absent, Num}

Descriptions ==
  {Str(<<"Warme ondertoon met gouden gloed">>),
   Str(<<"Onvoldoende Informatie", "in de foto">>), Str(fallbackDescription),
   Str(<<>>), Absent, Num}

Chars(s, h, e) == [k |-> "obj", skinTone |-> s, hairColor |-> h, eyeColor |-> e]
AbsentCharacteristics == [k |-> "absent", skinTone |-> Absent, hairColor |-> Absent, eyeColor |-> Absent]

CharacteristicsValues ==
  {AbsentCharacteristics, SentinelCharacteristics,
   Chars(Str(<<Sentinel>>), Str(<<"Donkerbruin">>), Str(<<"Blauw">>)),
   Chars(Str(<<"Warm">>), Str(<<"Donkerbruin">>), Str(<<"Blauw">>)),
   Chars(Absent, Str(<<"Donkerbruin">>), Str(<<"Blauw">>)),
   Chars(Str(<<Sentinel>>), Absent, Num)}

Palettes == {Absent, Str(<<Sentinel>>), Str(<<"Warme, heldere tinten">>)}

RecommendedLists ==
  {Arr(n, {}) : n \in 0..MaxRecommended} \cup {Arr(1, {0}), Arr(504, {503}), AbsentArr}

AvoidLists ==
  {Arr(n, {}) : n \in 0..MaxAvoid} \cup {Arr(2, {1}), AbsentArr}

\* answers that vary the two color lists, and answers that vary the texts
ColorOutputs ==
  [k : {"obj"}, seasonType : Seasons,
   analysisDescription : {Str(<<"Warme ondertoon met gouden gloed">>)},
   characteristics : {SentinelCharacteristics,
                      Chars(Str(<<"Warm">>), Str(<<"Donkerbruin">>), Str(<<"Blauw">>))},
   recommendedColors : RecommendedLists, avoidColors : AvoidLists,
   paletteDescription : {Str(<<Sentinel>>), Str(<<"Warme, heldere tinten">>)}]
  \cup
  [k : {"obj"}, seasonType : Seasons, analysisDescription : Descriptions,
   characteristics : CharacteristicsValues,
   recommendedColors : {Arr(0, {}), Arr(5, {})}, avoidColors : {Arr(0, {}), Arr(3, {})},
   paletteDescription : Palettes]

ModelOutputs(f) ==
  {Null} \cup (IF f = "clothing" THEN ClothingOutputs ELSE ColorOutputs)

\* z.string().url(): the text starts with a URL scheme
IsUrl(s) == s # <<>> /\ s[1] \in {"data:image", "data:text", "https://"}

UrlIssues(p, f) ==
  IF f.k # "str" THEN StringIssues(p, f)
  ELSE IF IsUrl(f.v) THEN <<>> ELSE <<Issue(p, "Invalid url")>>

OptionalIssues(iss, f) == IF f.k = "absent" THEN <<>> ELSE iss

\* z.array(z.string()): one issue per entry that is not a string
StringArrayIssues(p, a) ==
  IF a.k = "absent" THEN <<Issue(p, "Required")>>
  ELSE LET idx == SortedSeq(a.bad)
       IN [n \in 1..Len(idx) |->
             Issue(p \o <<ToString(idx[n])>>, "Expected string, received number")]

GenerateOutfitSuggestionInputSchema(i) ==
  StringIssues(<<"closetDescription">>, i.closetDescription)
  \o StringIssues(<<"weatherCondition">>, i.weatherCondition)
  \o StringIssues(<<"stylePreferences">>, i.stylePreferences)
  \o StringIssues(<<"fashionTrends">>, i.fashionTrends)

GenerateOutfitSuggestionOutputSchema(o) ==
  StringIssues(<<"outfitSuggestion">>, o.outfitSuggestion)
  \o StringIssues(<<"reasoning">>, o.reasoning)
  \o StringIssues(<<"suggestedShoes">>, o.suggestedShoes)
  \o OptionalIssues(StringIssues(<<"suggestedSocks">>, o.suggestedSocks), o.suggestedSocks)
  \o UrlIssues(<<"outfitImageUrl">>, o.outfitImageUrl)

GenerateOutfitInspirationInputSchema(i) ==
  StringIssues(<<"bodyType">>, i.bodyType)
  \o StringIssues(<<"stylePreferences">>, i.stylePreferences)
  \o StringArrayIssues(<<"clothingItems">>, i.clothingItems)

GenerateOutfitInspirationOutputSchema(o) ==
  StringArrayIssues(<<"inspiredOutfits">>, o.inspiredOutfits)

ClothingItemVisualSchema(p, it) ==
  StringIssues(p \o <<"description">>, it.description)
  \o OptionalIssues(UrlIssues(p \o <<"imageUrl">>, it.imageUrl), it.imageUrl)

RECURSIVE ItemsIssues(_, _)
ItemsIssues(its, n) ==
  IF n > Len(its) THEN <<>>
  ELSE ClothingItemVisualSchema(<<"items", ToString(n - 1)>>, its[n])
       \o ItemsIssues(its, n + 1)

GenerateOutfitVisualizationInputSchema(i) ==
  StringIssues(<<"description">>, i.description)
  \o (IF i.items.k = "absent" THEN <<>> ELSE ItemsIssues(i.items.v, 1))

GenerateOutfitVisualizationOutputSchema(o) ==
  UrlIssues(<<"visualizationUrl">>, o.visualizationUrl)

SuggestionInputs ==
  [closetDescription : {Str(<<"Jeans, witte blouse, trenchcoat">>)},
   weatherCondition : {Str(<<"Regenachtig">>), Absent},
   stylePreferences : {Str(<<"Casual">>)},
   fashionTrends : {Str(<<"Oversized blazers">>), Num}]

TextFieldValues == {Str(<<"Witte sneakers">>), Str(<<>>), Absent}

TextOutputs ==
  {Null} \cup
  [k : {"obj"}, outfitSuggestion : TextFieldValues, reasoning : TextFieldValues \cup {Num},
   suggestedShoes : TextFieldValues, suggestedSocks : {Str(<<"Wollen sokken">>), Absent}]

MediaOutputs ==
  {Null, [k |-> "obj", url |-> Absent], [k |-> "obj", url |-> Str(PngDataUri)],
   [k |-> "obj", url |-> Str(<<>>)], [k |-> "obj", url |-> Str(<<"not a url">>)]}

InspirationInputs ==
  [bodyType : {Str(<<"hourglass">>), Absent}, stylePreferences : {Str(<<"casual">>)},
   clothingItems : {Arr(2, {}), Arr(2, {1}), AbsentArr}]

InspirationOutputs ==
  {Null} \cup [k : {"obj"}, inspiredOutfits : {AbsentArr, Arr(0, {}), Arr(2, {}), Arr(2, {0})}]

SvgDataUri == <<"data:image", "/svg+xml", ",", "<svg/>">>

ItemChoices ==
  [description : {Str(<<"Blue denim jacket">>)},
   imageUrl : {Absent, Str(PngDataUri), Str(HttpsUrl), Str(SvgDataUri), Str(<<"not a url">>)}]

RECURSIVE SeqsUpTo(_, _)
SeqsUpTo(S, n) ==
  IF n = 0 THEN {<<>>}
  ELSE LET shorter == SeqsUpTo(S, n - 1)
       IN shorter \cup {Append(q, x) : q \in {r \in shorter : Len(r) = n - 1}, x \in S}

VisualizationInputs ==
  [description : {Str(<<"Denim jacket with white shirt">>)},
   items : {[k |-> "absent", v |-> <<>>]}
           \cup {[k |-> "arr", v |-> q] : q \in SeqsUpTo(ItemChoices, MaxItems)}]
  \cup
  [description : {Absent}, items : {[k |-> "absent", v |-> <<>>]}]

RetryFlows == {"clothing", "color"}
Flows == {"clothing", "color", "suggestion", "inspiration", "visualization"}

Inputs(f) ==
  CASE f \in RetryFlows -> DataUriInputs
    [] f = "suggestion" -> SuggestionInputs
    [] f = "inspiration" -> InspirationInputs
    [] f = "visualization" -> VisualizationInputs

InputIssuesSkipped(f, i) == <<>>
\* the inputSchema that defineFlow applies to the request before the handler runs
InputIssues(f, i) ==
  CASE f \in RetryFlows -> DataUriInputIssues(i)
    [] f = "suggestion" -> GenerateOutfitSuggestionInputSchema(i)
    [] f = "inspiration" -> GenerateOutfitInspirationInputSchema(i)
    [] f = "visualization" -> GenerateOutfitVisualizationInputSchema(i)

\* the outputSchema that defineFlow applies to the value the handler returns
FlowOutputIssues(f, o) ==
  CASE f \in RetryFlows -> OutputSchema(f, o)
    [] f = "suggestion" -> GenerateOutfitSuggestionOutputSchema(o)
    [] f = "inspiration" -> GenerateOutfitInspirationOutputSchema(o)
    [] f = "visualization" -> GenerateOutfitVisualizationOutputSchema(o)

OutputValidationError(iss) ==
  [name |-> "GenkitError", site |-> "outputSchema",
   message |-> Str(<<"INVALID_ARGUMENT: Schema validation failed.">>), issues |-> iss]

InputValidationError(iss) ==
  [name |-> "GenkitError", site |-> "inputSchema",
   message |-> Str(<<"INVALID_ARGUMENT: Schema validation failed.">>), issues |-> iss]

(***************************************************************************)
(* One flow invocation.                                                    *)
(***************************************************************************)
\* two invocations that overlap in time
Invocations == {1, 2}

\* an invocation that has not started; while it runs: its flow, where it
\* waits, the calls it made, the outcomes of its calls, the delays it slept
IdleInvocation ==
  [flow |-> "none", pc |-> "Idle", calls |-> 0, outcomes |-> <<>>,
   delays |-> <<>>, result |-> Pending]

\* const maxRetries = 3; let delay = 2000; let attempt = 0
NewFrame == [attempt |-> 0, delay |-> initialDelay]

Init ==
  /\ flow \in Flows
  /\ input \in Inputs(flow)
  /\ pc = "Validating"
  /\ attempt = 0
  /\ delay = initialDelay
  /\ callLog = <<>>
  /\ delays = <<>>
  /\ thrown = <<>>
  /\ raw = NoValue
  /\ output = NoValue
  /\ error = NoError
  /\ result = Pending
  /\ textOutput = NoValue
  /\ media = NoValue
  /\ promptSegments = <<>>
  /\ inv = [i \in Invocations |-> IdleInvocation]
  /\ frame = [c \in Invocations |-> NewFrame]

Fail(e) == pc' = "Failed" /\ result' = Failed(e)

\* defineFlow: the request is parsed with inputSchema, then the handler starts
StartFlow ==
  /\ pc = "Validating"
  /\ IF InputIssues(flow, input) # <<>>
     THEN Fail(InputValidationError(InputIssues(flow, input)))
     ELSE pc' = (IF flow \in RetryFlows THEN "Loop" ELSE "Prompting")
          /\ UNCHANGED result
  /\ UNCHANGED <<inv, frame, flow, input, attempt, delay, callLog, delays, thrown, raw,
                 output, error, textOutput, media, promptSegments>>

\* for (...; attempt < maxRetries; ...) and the throw after the loop
LoopTest ==
  /\ pc = "Loop"
  /\ flow \in RetryFlows
  /\ IF attempt < maxRetries
     THEN pc' = "Prompting" /\ UNCHANGED result
     ELSE Fail(FallThroughError(flow))
  /\ UNCHANGED <<inv, frame, flow, input, attempt, delay, callLog, delays, thrown, raw,
                 output, error, textOutput, media, promptSegments>>

TextSegment(t) == [kind |-> "text", v |-> t]
MediaSegment(u) == [kind |-> "media", v |-> u]

\* the prompt template of the clothing and color flows: the instructions, then
\* {{media url=photoDataUri}} (or userDataUri), then the output instruction
RenderPrompt(f, i) ==
  <<TextSegment(IF f = "clothing"
                THEN <<"You are an expert fashion AI assistant for a Dutch-speaking user. Analyze the provided image of a clothing item.", "Image:">>
                ELSE <<"Je bent een AI-expert in seizoenskleuranalyse voor mode en styling.", "Foto van de gebruiker:">>),
    MediaSegment(i.dataUri.v),
    TextSegment(IF f = "clothing"
                THEN <<"Output the analysis in the specified JSON format.">>
                ELSE <<"Lever de output strikt volgens het opgegeven JSON-schema, rekening houdend met bovenstaande uitzonderingsregels.">>)>>

\* await prompt(input): the model throws one of the errors E
PromptThrowsFrom(E) ==
  /\ pc = "Prompting"
  /\ flow \in RetryFlows
  /\ \E e \in E :
       /\ error' = e
       /\ thrown' = Append(thrown, e)
  /\ callLog' = Append(callLog, "prompt")
  /\ promptSegments' = RenderPrompt(flow, input)
  /\ pc' = "Caught"
  /\ UNCHANGED <<inv, frame, flow, input, attempt, delay, delays, raw, output, result,
                 textOutput, media>>

PromptThrows == PromptThrowsFrom(ProviderErrors)

\* await prompt(input): the model answers one of the outputs O;
\* if (!output) throw
PromptReturnsFrom(O) ==
  /\ pc = "Prompting"
  /\ flow \in RetryFlows
  /\ \E o \in O :
       /\ raw' = o
       /\ output' = o
       /\ IF o.k = "null"
          THEN error' = EmptyOutputError /\ pc' = "Caught"
          ELSE error' = error
               /\ pc' = (IF flow = "color" THEN "Normalizing" ELSE "ValidatingFinal")
  /\ callLog' = Append(callLog, "prompt")
  /\ promptSegments' = RenderPrompt(flow, input)
  /\ UNCHANGED <<inv, frame, flow, input, attempt, delay, delays, thrown, result,
                 textOutput, media>>

PromptReturns == PromptReturnsFrom(ModelOutputs(flow))

\* color analysis: the post-processing block between the call and the parse
NormalizeOutput ==
  /\ pc = "Normalizing"
  /\ LET r == Normalize(output)
     IN IF r.threw
        THEN error' = r.error /\ pc' = "Caught" /\ UNCHANGED output
        ELSE output' = r.value /\ pc' = "ValidatingFinal" /\ UNCHANGED error
  /\ UNCHANGED <<inv, frame, flow, input, attempt, delay, callLog, delays, thrown, raw,
                 result, textOutput, media, promptSegments>>

\* OutputSchema.parse(output); return output
ValidateOutput ==
  /\ pc = "ValidatingFinal"
  /\ flow \in RetryFlows
  /\ LET iss == OutputSchema(flow, output)
     IN IF iss # <<>>
        THEN error' = ZodError(iss) /\ pc' = "Caught" /\ UNCHANGED result
        ELSE pc' = "Succeeded" /\ result' = Succeeded(ReturnValue(flow, output))
             /\ UNCHANGED error
  /\ UNCHANGED <<inv, frame, flow, input, attempt, delay, callLog, delays, thrown, raw,
                 output, textOutput, media, promptSegments>>

Rethrow(e) == [retry |-> FALSE, error |-> e]
SleepAndRetry == [retry |-> TRUE, error |-> NoError]

WrappedError(e) ==
  MkError("Error", "wrapped", Str(<<"AI-analyse mislukt:">> \o MessageOr(e, <<>>)))

CatchOutcomeWrapping(f, e, att) ==
  IF e.name = "ZodError" THEN Rethrow(ValidationError(f, e))
  ELSE IF IsRetryableError(e)
  THEN IF att < maxRetries - 1 THEN SleepAndRetry ELSE Rethrow(ExhaustedError(f, e))
  ELSE Rethrow(WrappedError(e))

CatchOutcomeClassifyFirst(f, e, att) ==
  IF IsRetryableError(e)
  THEN IF att < maxRetries - 1 THEN SleepAndRetry ELSE Rethrow(ExhaustedError(f, e))
  ELSE IF e.name = "ZodError" THEN Rethrow(ValidationError(f, e))
  ELSE Rethrow(e)

CatchOutcomeRetryAll(f, e, att) ==
  IF att < maxRetries - 1 THEN SleepAndRetry ELSE Rethrow(ExhaustedError(f, e))

CatchOutcomeRetryOnLast(f, e, att) ==
  IF e.name = "ZodError" THEN Rethrow(ValidationError(f, e))
  ELSE IF IsRetryableError(e)
  THEN IF att < maxRetries THEN SleepAndRetry ELSE Rethrow(ExhaustedError(f, e))
  ELSE Rethrow(e)

CatchOutcomeNoRetry(f, e, att) ==
  IF e.name = "ZodError" THEN Rethrow(ValidationError(f, e)) ELSE Rethrow(e)

\* what the catch block decides for error e caught on attempt att
CatchOutcome(f, e, att) ==
  IF e.name = "ZodError" THEN Rethrow(ValidationError(f, e))
  ELSE IF IsRetryableError(e)
  THEN IF att < maxRetries - 1 THEN SleepAndRetry ELSE Rethrow(ExhaustedError(f, e))
  ELSE Rethrow(e)

\* the catch block
HandleError ==
  /\ pc = "Caught"
  /\ LET c == CatchOutcome(flow, error, attempt)
     IN IF c.retry
        THEN pc' = "Retrying" /\ UNCHANGED result
        ELSE Fail(c.error)
  /\ UNCHANGED <<inv, frame, flow, input, attempt, delay, callLog, delays, thrown, raw,
                 output, error, textOutput, media, promptSegments>>

\* the setTimeout promise resolves; delay *= 2; attempt++
SleepDone ==
  /\ pc = "Retrying"
  /\ delays' = Append(delays, delay)
  /\ delay' = Backoff(delay)
  /\ attempt' = attempt + 1
  /\ pc' = "Loop"
  /\ UNCHANGED <<inv, frame, flow, input, callLog, thrown, raw, output, error, result,
                 textOutput, media, promptSegments>>

\* the handler returns v and defineFlow parses it with outputSchema
FlowReturn(v) ==
  IF FlowOutputIssues(flow, v) # <<>>
  THEN Fail(OutputValidationError(FlowOutputIssues(flow, v)))
  ELSE pc' = "Succeeded" /\ result' = Succeeded(v)

IncompleteTextError ==
  MkError("Error", "incompleteText",
          Str(<<"AI response for outfit text suggestion was empty, incomplete, or not in the expected format.">>))

GenerationFailedError(f) ==
  MkError("Error", "generationFailed",
          Str(IF f = "suggestion" THEN <<"Failed to generate outfit image.">>
              ELSE <<"Failed to generate outfit visualization image. The AI might have declined the request or an unknown error occurred.">>))

EmptyInspirationError ==
  MkError("Error", "emptyInspiration",
          Str(<<"AI response for outfit inspiration was empty or not in the expected format.">>))

TextCompleteIgnoringShoes(t) ==
  t.k # "null" /\ Truthy(t.outfitSuggestion) /\ Truthy(t.reasoning)
\* the negation of the guard that follows the text call
TextComplete(t) ==
  t.k # "null" /\ Truthy(t.outfitSuggestion) /\ Truthy(t.suggestedShoes)
  /\ Truthy(t.reasoning)

HasMediaUrlAnyMedia(m) == m.k # "null"
\* media?.url is truthy
HasMediaUrl(m) == m.k # "null" /\ Truthy(m.url)

imagePromptTextFixed(t) ==
  <<"Generate a high-quality, realistic image of a person wearing a fashionable outfit.">>
\* the text of the image prompt, built from the text answer
imagePromptText(t) ==
  <<"Generate a high-quality, realistic image of a person wearing the following outfit:">>
  \o t.outfitSuggestion.v
  \o <<". The person should also be wearing">>
  \o t.suggestedShoes.v
  \o (IF Truthy(t.suggestedSocks) THEN <<"with">> \o t.suggestedSocks.v ELSE <<>>)
  \o <<". Ensure the style is fashionable and clear, and that the shoes and any visible socks are clearly depicted. The image should be suitable for a fashion app.">>

\* outfit suggestion: await textPrompt(input)
SuggestionTextPrompt ==
  /\ pc = "Prompting"
  /\ flow = "suggestion"
  /\ callLog' = Append(callLog, "text")
  /\ \/ \E e \in ProviderErrors :
          /\ thrown' = Append(thrown, e)
          /\ Fail(e)
          /\ UNCHANGED textOutput
     \/ \E t \in TextOutputs :
          /\ textOutput' = t
          /\ pc' = "TextReceived"
          /\ UNCHANGED <<thrown, result>>
  /\ UNCHANGED <<inv, frame, flow, input, attempt, delay, delays, raw, output, error,
                 media, promptSegments>>

\* outfit suggestion: the completeness guard, then await ai.generate(...)
SuggestionGenerateImage ==
  /\ pc = "TextReceived"
  /\ flow = "suggestion"
  /\ IF ~TextComplete(textOutput)
     THEN Fail(IncompleteTextError)
          /\ UNCHANGED <<callLog, thrown, media, promptSegments>>
     ELSE /\ callLog' = Append(callLog, "image")
          /\ promptSegments' = <<TextSegment(imagePromptText(textOutput))>>
          /\ \/ \E e \in ProviderErrors :
                  /\ thrown' = Append(thrown, e)
                  /\ Fail(e)
                  /\ UNCHANGED media
             \/ \E m \in MediaOutputs :
                  /\ media' = m
                  /\ pc' = "MediaReceived"
                  /\ UNCHANGED <<thrown, result>>
  /\ UNCHANGED <<inv, frame, flow, input, attempt, delay, delays, raw, output, error, textOutput>>

\* outfit suggestion: the media guard and the return statement
SuggestionReturn ==
  /\ pc = "MediaReceived"
  /\ flow = "suggestion"
  /\ IF ~HasMediaUrl(media)
     THEN Fail(GenerationFailedError(flow))
     ELSE FlowReturn([k |-> "obj",
                      outfitSuggestion |-> textOutput.outfitSuggestion,
                      reasoning |-> textOutput.reasoning,
                      suggestedShoes |-> textOutput.suggestedShoes,
                      suggestedSocks |-> textOutput.suggestedSocks,
                      outfitImageUrl |-> media.url])
  /\ UNCHANGED <<inv, frame, flow, input, attempt, delay, callLog, delays, thrown, raw,
                 output, error, textOutput, media, promptSegments>>

\* outfit inspiration: await prompt(input)
InspirationPrompt ==
  /\ pc = "Prompting"
  /\ flow = "inspiration"
  /\ callLog' = Append(callLog, "prompt")
  /\ \/ \E e \in ProviderErrors :
          /\ thrown' = Append(thrown, e)
          /\ Fail(e)
          /\ UNCHANGED <<raw, output>>
     \/ \E o \in InspirationOutputs :
          /\ raw' = o
          /\ output' = o
          /\ pc' = "Received"
          /\ UNCHANGED <<thrown, result>>
  /\ UNCHANGED <<inv, frame, flow, input, attempt, delay, delays, error, textOutput,
                 media, promptSegments>>

\* outfit inspiration: the guard and the return statement
InspirationReturn ==
  /\ pc = "Received"
  /\ flow = "inspiration"
  /\ IF output.k = "null" \/ output.inspiredOutfits.k = "absent"
     THEN Fail(EmptyInspirationError)
     ELSE FlowReturn(output)
  /\ UNCHANGED <<inv, frame, flow, input, attempt, delay, callLog, delays, thrown, raw,
                 output, error, textOutput, media, promptSegments>>

\* the segments pushed for one item of input.items
ItemSegments(it) ==
  IF Truthy(it.imageUrl)
  THEN IF it.imageUrl.k = "str" /\ it.imageUrl.v[1] = "data:image"
       THEN <<MediaSegment(it.imageUrl.v),
              TextSegment(<<"This is a">> \o it.description.v)>>
       ELSE <<TextSegment(<<"(Image for">> \o it.description.v
                          \o <<"was not in correct data URI format)">>)>>
  ELSE <<TextSegment(<<"-">> \o it.description.v)>>

RECURSIVE ItemsSegments(_)
ItemsSegments(its) ==
  IF its = <<>> THEN <<>>
  ELSE ItemSegments(Head(its)) \o ItemsSegments(Tail(its))

BuildPromptSegments(i) ==
  <<TextSegment(<<"Generate a high-quality, realistic image of a person wearing the following outfit:">>
                \o i.description.v),
    TextSegment(<<"Ensure the style is fashionable and clear. The image should be suitable for a fashion app.">>)>>
  \o (IF i.items.k = "arr" /\ Len(i.items.v) > 0
      THEN <<TextSegment(<<"For additional context, here are some of the items included (prioritize the main description above):">>)>>
           \o ItemsSegments(i.items.v)
      ELSE <<>>)

\* outfit visualization: build the prompt, then await ai.generate(...)
VisualizationGenerateImage ==
  /\ pc = "Prompting"
  /\ flow = "visualization"
  /\ promptSegments' = BuildPromptSegments(input)
  /\ callLog' = Append(callLog, "image")
  /\ \/ \E e \in ProviderErrors :
          /\ thrown' = Append(thrown, e)
          /\ Fail(e)
          /\ UNCHANGED media
     \/ \E m \in MediaOutputs :
          /\ media' = m
          /\ pc' = "MediaReceived"
          /\ UNCHANGED <<thrown, result>>
  /\ UNCHANGED <<inv, frame, flow, input, attempt, delay, delays, raw, output, error, textOutput>>

\* outfit visualization: the media guard and the return statement
VisualizationReturn ==
  /\ pc = "MediaReceived"
  /\ flow = "visualization"
  /\ IF ~HasMediaUrl(media)
     THEN Fail(GenerationFailedError(flow))
     ELSE FlowReturn([k |-> "obj", visualizationUrl |-> media.url])
  /\ UNCHANGED <<inv, frame, flow, input, attempt, delay, callLog, delays, thrown, raw,
                 output, error, textOutput, media, promptSegments>>

Next ==
  \/ StartFlow
  \/ LoopTest
  \/ PromptThrows
  \/ PromptReturns
  \/ NormalizeOutput
  \/ ValidateOutput
  \/ HandleError
  \/ SleepDone
  \/ SuggestionTextPrompt
  \/ SuggestionGenerateImage
  \/ SuggestionReturn
  \/ InspirationPrompt
  \/ InspirationReturn
  \/ VisualizationGenerateImage
  \/ VisualizationReturn

Spec == Init /\ [][Next]_vars

Done == pc \in {"Succeeded", "Failed"}

(***************************************************************************)
(* Two overlapping invocations of the clothing and color flows.  A handler *)
(* runs without interruption between two awaits, so an invocation takes    *)
(* one step per await: it starts and issues its first call, a call         *)
(* settles and the handler runs up to its return, throw or sleep, the      *)
(* sleep ends and the handler issues the next call.                        *)
(***************************************************************************)
CellShared(i) == 1
\* where the let variables of invocation i live: every call of the handler
\* has its own
Cell(i) == i

PairClothingOutputs ==
  {o \in ClothingOutputs :
     /\ o.itemType = Str(<<"Blauw">>) /\ o.itemColor = Str(<<"Blauw">>)
     /\ o.itemStyle = Str(<<"Blauw">>) /\ o.fullDescription = Str(<<"Blauw">>)}

PairColorOutputs ==
  {o \in ColorOutputs :
     /\ o.seasonType \in {Str(<<"Lente">>), Str(<<Sentinel>>)}
     /\ o.analysisDescription = Str(<<"Warme ondertoon met gouden gloed">>)
     /\ o.characteristics = Chars(Str(<<"Warm">>), Str(<<"Donkerbruin">>), Str(<<"Blauw">>))
     /\ o.recommendedColors \in {Arr(5, {}), Arr(1, {0})}
     /\ o.avoidColors = Arr(3, {})
     /\ o.paletteDescription = Str(<<"Warme, heldere tinten">>)}

\* how one model call of flow f can end
PairOutcomes(f) ==
  {Threw(e) : e \in ProviderErrors} \cup {Returned(Null)}
  \cup {Returned(o) : o \in (IF f = "clothing" THEN PairClothingOutputs
                              ELSE PairColorOutputs)}

\* the try block from the settled call on: the value it returns or the error
\* it throws
TryBody(f, oc) ==
  IF oc.threw THEN oc
  ELSE IF oc.value.k = "null" THEN Threw(EmptyOutputError)
  ELSE LET r == IF f = "color" THEN Normalize(oc.value) ELSE Returned(oc.value)
       IN IF r.threw THEN r
          ELSE IF OutputSchema(f, r.value) # <<>>
               THEN Threw(ZodError(OutputSchema(f, r.value)))
               ELSE Returned(ReturnValue(f, r.value))

\* the handler is called: its variables are created and the first call issued
PairBegin(i) ==
  /\ inv[i].pc = "Idle"
  /\ \E f \in RetryFlows :
       inv' = [inv EXCEPT ![i] = [@ EXCEPT !.flow = f, !.pc = "Awaiting", !.calls = 1]]
  /\ frame' = [frame EXCEPT ![Cell(i)] = NewFrame]
  /\ UNCHANGED <<flow, input, pc, attempt, delay, callLog, delays, thrown,
                 raw, output, error, result, textOutput, media, promptSegments>>

\* the call of invocation i settles; the handler returns, throws or sleeps
PairSettle(i) ==
  /\ inv[i].pc = "Awaiting"
  /\ \E oc \in PairOutcomes(inv[i].flow) :
       LET t == TryBody(inv[i].flow, oc)
           c == CatchOutcome(inv[i].flow, t.error, frame[Cell(i)].attempt)
       IN inv' = [inv EXCEPT ![i] =
                    IF ~t.threw
                    THEN [@ EXCEPT !.outcomes = Append(@, oc), !.pc = "Succeeded",
                                   !.result = Succeeded(t.value)]
                    ELSE IF c.retry
                    THEN [@ EXCEPT !.outcomes = Append(@, oc), !.pc = "Sleeping",
                                   !.delays = Append(@, frame[Cell(i)].delay)]
                    ELSE [@ EXCEPT !.outcomes = Append(@, oc), !.pc = "Failed",
                                   !.result = Failed(c.error)]]
  /\ UNCHANGED <<frame, flow, input, pc, attempt, delay, callLog, delays, thrown,
                 raw, output, error, result, textOutput, media, promptSegments>>

\* the sleep of invocation i ends: delay *= 2; attempt++; the loop test; the
\* next call
PairWake(i) ==
  /\ inv[i].pc = "Sleeping"
  /\ frame' = [frame EXCEPT ![Cell(i)] =
                 [attempt |-> @.attempt + 1, delay |-> Backoff(@.delay)]]
  /\ inv' = [inv EXCEPT ![i] =
               IF frame[Cell(i)].attempt + 1 < maxRetries
               THEN [@ EXCEPT !.pc = "Awaiting", !.calls = @ + 1]
               ELSE [@ EXCEPT !.pc = "Failed",
                              !.result = Failed(FallThroughError(inv[i].flow))]]
  /\ UNCHANGED <<flow, input, pc, attempt, delay, callLog, delays, thrown,
                 raw, output, error, result, textOutput, media, promptSegments>>

InitPair ==
  /\ Init
  /\ flow = "clothing"
  /\ input = [dataUri |-> Str(PngDataUri)]

NextPair ==
  \/ \E i \in Invocations : PairBegin(i)
  \/ \E i \in Invocations : PairSettle(i)
  \/ \E i \in Invocations : PairWake(i)

SpecPair == InitPair /\ [][NextPair]_vars

(***************************************************************************)
(* One invocation of the clothing or color flow in which every model call  *)
(* settles and every sleep ends: the handler is never left waiting, so a   *)
(* step that can be taken is taken.                                        *)
(***************************************************************************)
InitRetry == Init /\ flow \in RetryFlows

\* answers of each kind: empty, valid, invalid for the parse, and one on which
\* the post-processing block throws
LiveOutputs(f) ==
  {Null} \cup (IF f = "clothing" THEN PairClothingOutputs
               ELSE PairColorOutputs
                    \cup {[o EXCEPT !.seasonType = Num] : o \in PairColorOutputs})

PromptReturnsSome == PromptReturnsFrom(LiveOutputs(flow))

NextRetry ==
  \/ StartFlow
  \/ LoopTest
  \/ PromptThrows
  \/ PromptReturnsSome
  \/ NormalizeOutput
  \/ ValidateOutput
  \/ HandleError
  \/ SleepDone

SpecLive == InitRetry /\ [][NextRetry]_vars /\ WF_vars(NextRetry)

(***************************************************************************)
(* The retry envelope under a provider that only fails, with a wide range  *)
(* of error messages: every keyword as written, in another case and inside *)
(* a longer message, messages close to a keyword, and no message.          *)
(***************************************************************************)
ClassifyMessages ==
  {Str(<<kw>>) : kw \in {"503", "service unavailable", "model is overloaded",
                         "model_is_overloaded", "resource has been exhausted",
                         "rate limit", "try again"}}
  \cup {Str(<<"Error:", kw, "(check quota)">>) :
          kw \in {"503", "Service Unavailable", "Model Is Overloaded",
                  "MODEL_IS_OVERLOADED", "Resource Has Been Exhausted",
                  "Rate Limit", "TRY AGAIN"}}
  \cup {Str(<<m>>) : m \in {"500", "Service Available", "overloaded",
                            "resource", "rate", "try", "Invalid Argument",
                            "Onbekende fout opgetreden"}}
  \cup {Str(<<>>), Absent}

ClassifyErrors == {MkError("Error", "provider", m) : m \in ClassifyMessages}

PromptThrowsAny == PromptThrowsFrom(ClassifyErrors)

InitClassify ==
  /\ Init
  /\ flow \in RetryFlows
  /\ input = [dataUri |-> Str(PngDataUri)]

NextClassify ==
  \/ StartFlow
  \/ LoopTest
  \/ PromptThrowsAny
  \/ HandleError
  \/ SleepDone

SpecClassify == InitClassify /\ [][NextClassify]_vars

(***************************************************************************)
(* Properties of the retry envelope (clothing analysis, color analysis).   *)
(***************************************************************************)
\* the message of e, lower-cased, contains one of the retryable keywords
MatchesRetryableKeyword(e) ==
  \E kw \in retryableKeywords :
     \E n \in DOMAIN e.message.v : LowerPhrase(e.message.v[n]) = kw

RateLimited(e) ==
  \E n \in DOMAIN e.message.v : LowerPhrase(e.message.v[n]) = "rate limit"

\* C1: in the clothing-analysis and color-analysis flows one invocation makes
\* at most 3 model calls, whatever the outcomes of the calls are.
C1_AtMostThreeCalls ==
  flow \in RetryFlows => Len(callLog) <= 3

C1_Witness ==
  /\ flow = "color"
  /\ pc = "Failed"
  /\ Len(callLog) = 3
  /\ result.error.site = "exhausted"

\* C2: the delay slept before call k+1 is 2000 * 2^(k-1); every call but the
\* first is preceded by exactly one delay, so a finished invocation that made
\* n >= 1 calls slept n-1 times; two "rate limit" failures followed by a valid
\* answer give the answer after exactly 3 calls with delays 2000 then 4000.
C2_ExponentialBackoff ==
  flow \in RetryFlows =>
    /\ \A n \in 1..Len(delays) : delays[n] = 2000 * 2^(n - 1)
    /\ pc = "Prompting" => Len(delays) = Len(callLog)
    /\ (Done /\ Len(callLog) >= 1) => Len(delays) = Len(callLog) - 1
    /\ ( /\ pc = "Succeeded"
         /\ Len(thrown) = 2
         /\ RateLimited(thrown[1])
         /\ RateLimited(thrown[2]) )
       => /\ Len(callLog) = 3
          /\ delays = <<2000, 4000>>
          /\ result = Succeeded(output)
          /\ flow = "clothing" => output = raw

C2_Witness ==
  /\ flow = "clothing"
  /\ pc = "Succeeded"
  /\ Len(thrown) = 2
  /\ RateLimited(thrown[1])
  /\ RateLimited(thrown[2])
  /\ delays = <<2000, 4000>>
  /\ result.status = "ok"

\* C3: when the n-th call throws an error whose message matches no retryable
\* keyword, the flow stops there: n calls, n-1 delays, and it fails with that
\* very error, neither wrapped nor replaced (1 call and 0 delays for n = 1).
C3_NonRetryableFailsAtOnce ==
  flow \in RetryFlows =>
    \A n \in 1..Len(thrown) :
       ~MatchesRetryableKeyword(thrown[n]) =>
          /\ Len(callLog) = n
          /\ Len(delays) = n - 1
          /\ pc \in {"Caught", "Failed"}
          /\ pc = "Failed" => result = Failed(thrown[n])
          /\ n = 1 => (Len(callLog) = 1 /\ delays = <<>>)

C3_Witness ==
  /\ flow = "clothing"
  /\ pc = "Failed"
  /\ Len(thrown) = 2
  /\ ~MatchesRetryableKeyword(thrown[2])
  /\ result.error = thrown[2]
  /\ result.error.site = "provider"

\* C4 as stated: whenever the answer of a model call fails the result schema,
\* the flow fails (with a validation error).  Stated in its weakest reading:
\* such an answer is never returned as a success.
C4_Original ==
  (flow \in RetryFlows /\ Done /\ raw.k = "obj" /\ OutputSchema(flow, raw) # <<>>)
    => pc = "Failed"

\* C4 (amended): whenever the value submitted to the result-schema parse (the
\* model answer in the clothing flow, the post-processed answer in the color
\* flow) fails the schema, on any attempt, the flow fails with the validation
\* error without another model call or delay, also when the text of the
\* validation failure contains a retryable keyword such as "503".
C4_ValidationFailureNeverRetried ==
  (flow \in RetryFlows /\ error.name = "ZodError") =>
    /\ pc \in {"Caught", "Failed"}
    /\ Len(callLog) = Len(thrown) + 1
    /\ Len(delays) = Len(thrown)
    /\ pc = "Failed" =>
         /\ result.status = "failed"
         /\ result.error.name = "Error"
         /\ result.error.site = "zodWrap"

C4_Witness ==
  /\ flow = "color"
  /\ pc = "Failed"
  /\ error.name = "ZodError"
  /\ Len(thrown) = 1
  /\ includes(toLowerCase(error.message.v), "503")
  /\ includes(toLowerCase(result.error.message.v), "503")
  /\ result.error.site = "zodWrap"

\* C5: when the third attempt fails with a retryable error the flow fails with
\* the exhausted-retries error, whose message ends with the message of that
\* third error, and nothing is slept after the third failure.
C5_ExhaustedCarriesLastError ==
  (flow \in RetryFlows /\ Len(thrown) = 3 /\ MatchesRetryableKeyword(thrown[3])) =>
    /\ pc \in {"Caught", "Failed"}
    /\ delays = <<2000, 4000>>
    /\ pc = "Failed" =>
         /\ result.error.site = "exhausted"
         /\ result.error.message.v = ExhaustedPrefix(flow) \o thrown[3].message.v

C5_Witness ==
  /\ flow = "color"
  /\ pc = "Failed"
  /\ Len(thrown) = 3
  /\ thrown[1].message # thrown[3].message
  /\ thrown[2].message # thrown[3].message
  /\ result.error.site = "exhausted"
  /\ result.error.message.v = ExhaustedPrefix(flow) \o thrown[3].message.v

(***************************************************************************)
(* Properties of the season normalizer and of the final validation.        *)
(***************************************************************************)
\* the season text, lower-cased, contains one of the undetermined keywords
UndeterminedSeason(o) ==
  /\ o.seasonType.k = "str"
  /\ \E kw \in unanalyzableSeasonKeywords :
        \E n \in DOMAIN o.seasonType.v : LowerPhrase(o.seasonType.v[n]) = kw

DeterminedSeason(o) == o.seasonType.k = "str" /\ ~UndeterminedSeason(o)

\* C6 as stated: for an undetermined-keyword season the returned result has
\* empty recommended and avoid lists, and skin tone, hair color, eye color and
\* palette description all equal to the sentinel "Niet te bepalen".
C6_UndeterminedResultIsSentinel ==
  (flow = "color" /\ pc = "Succeeded" /\ UndeterminedSeason(raw)) =>
    /\ result.value.recommendedColors = Arr(0, {})
    /\ result.value.avoidColors = Arr(0, {})
    /\ result.value.characteristics.skinTone = Str(<<Sentinel>>)
    /\ result.value.characteristics.hairColor = Str(<<Sentinel>>)
    /\ result.value.characteristics.eyeColor = Str(<<Sentinel>>)
    /\ result.value.paletteDescription = Str(<<Sentinel>>)

\* C7 as stated: for a determined season an answer with fewer than 5
\* recommended or fewer than 3 avoid colors fails with a validation error and
\* is never returned as a success.
C7_UnderfilledListsFailValidation ==
  ( /\ flow = "color"
    /\ Done
    /\ raw.k = "obj"
    /\ DeterminedSeason(raw)
    /\ raw.recommendedColors.k = "arr"
    /\ raw.avoidColors.k = "arr"
    /\ (raw.recommendedColors.len < 5 \/ raw.avoidColors.len < 3) )
  => (pc = "Failed" /\ result.error.site = "zodWrap")

\* a result that satisfies the documented season invariant
AlreadyNormalized(o) ==
  /\ o.k = "obj"
  /\ PerformColorAnalysisOutputSchema(o) = <<>>
  /\ UndeterminedSeason(o) =>
       /\ o.recommendedColors = Arr(0, {})
       /\ o.avoidColors = Arr(0, {})
       /\ o.characteristics = SentinelCharacteristics
       /\ o.paletteDescription = Str(<<Sentinel>>)
       /\ \/ o.analysisDescription = Str(fallbackDescription)
          \/ \E kw \in unanalyzableSeasonKeywords :
                \E n \in DOMAIN o.analysisDescription.v :
                   LowerPhrase(o.analysisDescription.v[n]) = kw
  /\ DeterminedSeason(o) =>
       /\ o.recommendedColors.len >= 5
       /\ o.avoidColors.len >= 3

\* C8: the normalizer is idempotent, normalize(normalize(r)) = normalize(r)
\* for every answer r it returns on, and an answer that is valid and already
\* normalized leaves the normalizer with every field unchanged.
C8_NormalizerIdempotent ==
  (flow = "color" /\ pc \in {"ValidatingFinal", "Succeeded"}) =>
    /\ ~Normalize(raw).threw
    /\ Normalize(Normalize(raw).value) = Normalize(raw)
    /\ AlreadyNormalized(raw) => output = raw

C8_Witness ==
  /\ flow = "color"
  /\ pc = "Succeeded"
  /\ UndeterminedSeason(raw)
  /\ AlreadyNormalized(raw)
  /\ raw.seasonType = Str(<<"niet te bepalen">>)
  /\ result.value = raw

(***************************************************************************)
(* Properties of the flows without a retry loop.                           *)
(***************************************************************************)
\* the text answer is nothing, or lacks one of the three required fields
C9_TextIncomplete ==
  \/ textOutput.k = "null"
  \/ /\ textOutput.k = "obj"
     /\ \/ textOutput.outfitSuggestion.k = "absent"
        \/ textOutput.reasoning.k = "absent"
        \/ textOutput.suggestedShoes.k = "absent"

\* C9: in the outfit-suggestion flow an empty or incomplete text answer makes
\* the flow fail without an image-generation call; the image call is made only
\* after a complete text answer and never before the text call.
C9_NoImageCallAfterIncompleteText ==
  flow = "suggestion" =>
    /\ callLog \in {<<>>, <<"text">>, <<"text", "image">>}
    /\ C9_TextIncomplete =>
         /\ callLog = <<"text">>
         /\ pc \in {"TextReceived", "Failed"}
         /\ pc = "Failed" => result.error.site = "incompleteText"
    /\ Len(callLog) = 2 => (textOutput.k = "obj" /\ ~C9_TextIncomplete)

C9_Witness ==
  /\ flow = "suggestion"
  /\ pc = "Failed"
  /\ textOutput.k = "obj"
  /\ textOutput.suggestedShoes.k = "absent"
  /\ textOutput.outfitSuggestion.k = "str"
  /\ textOutput.reasoning.k = "str"
  /\ callLog = <<"text">>
  /\ result.error.site = "incompleteText"

\* the request fails the input schema of its flow
C10_InvalidInput ==
  CASE flow = "clothing" -> input.dataUri.k # "str"
    [] flow = "color" -> input.dataUri.k # "str"
    [] flow = "suggestion" -> GenerateOutfitSuggestionInputSchema(input) # <<>>
    [] flow = "inspiration" -> GenerateOutfitInspirationInputSchema(input) # <<>>
    [] flow = "visualization" -> GenerateOutfitVisualizationInputSchema(input) # <<>>

\* C10: in each of the five flows a request that fails the input schema makes
\* the flow fail with a validation error and no model call is ever made.
C10_InvalidInputNeverReachesModel ==
  C10_InvalidInput =>
    /\ callLog = <<>>
    /\ pc \in {"Validating", "Failed"}
    /\ pc = "Failed" =>
         /\ result.error.site = "inputSchema"
         /\ result.error.issues # <<>>

C10_Witness ==
  /\ flow = "visualization"
  /\ input.items.k = "arr"
  /\ C10_InvalidInput
  /\ pc = "Failed"
  /\ callLog = <<>>
  /\ result.error.site = "inputSchema"

(***************************************************************************)
(* Which flows retry, and how many model calls each flow makes.            *)
(***************************************************************************)
NoRetryFlows == {"suggestion", "inspiration", "visualization"}

\* C11 as stated: in each of the five flows a model call that fails with a
\* retryable message while attempts remain does not make the flow fail with
\* that error; a delay and another call follow.
C11_Original ==
  ~( /\ pc = "Failed"
     /\ thrown # <<>>
     /\ Len(thrown) < 3
     /\ MatchesRetryableKeyword(thrown[Len(thrown)])
     /\ result.error = thrown[Len(thrown)] )

\* C11 (amended): the retry envelope exists in the clothing-analysis and
\* color-analysis flows only.  There, a retryable failure of call n < 3 is
\* followed by a delay and then call n+1, never by failure of the flow.  In
\* outfit suggestion, inspiration and visualization any failure of a model
\* call, retryable message or not, fails the flow at once with that error:
\* no delay, no further call.
C11_RetryOnlyInAnalysisFlows ==
  /\ flow \in RetryFlows =>
       \A n \in 1..Len(thrown) :
          (n < 3 /\ MatchesRetryableKeyword(thrown[n])) =>
             /\ Len(callLog) = n =>
                  /\ pc \in {"Caught", "Retrying", "Loop", "Prompting"}
                  /\ pc \in {"Caught", "Retrying"} => Len(delays) = n - 1
                  /\ pc \in {"Loop", "Prompting"} => Len(delays) = n
             /\ Len(callLog) > n => Len(delays) >= n
  /\ (flow \in NoRetryFlows /\ thrown # <<>>) =>
       /\ Len(thrown) = 1
       /\ pc = "Failed"
       /\ result = Failed(thrown[1])
       /\ delays = <<>>

C11_Witness ==
  /\ flow = "inspiration"
  /\ pc = "Failed"
  /\ callLog = <<"prompt">>
  /\ Len(thrown) = 1
  /\ MatchesRetryableKeyword(thrown[1])
  /\ result.error = thrown[1]

\* C12 as stated: outfit visualization, like outfit suggestion, makes two
\* model calls on every successful invocation, a text call then an image call.
C12_Original ==
  (flow \in {"suggestion", "visualization"} /\ pc = "Succeeded")
    => callLog = <<"text", "image">>

\* C12 (amended): a successful outfit-suggestion invocation makes exactly two
\* model calls, the text call and then the image call, whose prompt contains
\* the outfit and shoe texts of the text answer; a successful
\* outfit-visualization invocation makes exactly one model call, the image
\* call, whose prompt is built from the request.
C12_CallsPerSuccessfulInvocation ==
  /\ (flow = "suggestion" /\ pc = "Succeeded") =>
       /\ callLog = <<"text", "image">>
       /\ Len(promptSegments) = 1
       /\ promptSegments[1].kind = "text"
       /\ \A n \in DOMAIN textOutput.outfitSuggestion.v :
             includes(promptSegments[1].v, textOutput.outfitSuggestion.v[n])
       /\ \A n \in DOMAIN textOutput.suggestedShoes.v :
             includes(promptSegments[1].v, textOutput.suggestedShoes.v[n])
  /\ (flow = "visualization" /\ pc = "Succeeded") =>
       /\ callLog = <<"image">>
       /\ textOutput = NoValue
       /\ \A n \in DOMAIN input.description.v :
             includes(promptSegments[1].v, input.description.v[n])

C12_Witness ==
  /\ flow = "visualization"
  /\ pc = "Succeeded"
  /\ callLog = <<"image">>
  /\ input.items.k = "arr"
  /\ result.value.visualizationUrl = Str(PngDataUri)

(***************************************************************************)
(* Image references handed to the model.                                   *)
(***************************************************************************)
\* the form data:<mime>;base64,<payload>
IsBase64DataUri(s) ==
  /\ Len(s) = 4
  /\ s[1] \in {"data:image", "data:text"}
  /\ s[3] = ";base64,"

\* C13: in the clothing-analysis, color-analysis and outfit-visualization
\* flows every image reference passed to the model as media has the form
\* data:<mime>;base64,<payload>; any other reference is left out of the media.
C13_OnlyBase64DataUrisAsMedia ==
  flow \in {"clothing", "color", "visualization"} =>
    \A n \in DOMAIN promptSegments :
       promptSegments[n].kind = "media" => IsBase64DataUri(promptSegments[n].v)

\* the image call answered without an image reference
MediaMissing(m) ==
  \/ m.k = "null"
  \/ m.k = "obj" /\ (m.url.k = "absent" \/ (m.url.k = "str" /\ m.url.v = <<>>))

ImageUrlOf(v) ==
  IF flow = "suggestion" THEN v.outfitImageUrl ELSE v.visualizationUrl

\* C14: in outfit suggestion and outfit visualization, when the image call
\* returns no image reference the invocation fails with the generation-failed
\* error, which differs from the incomplete-text error, and no successful
\* result carries an absent or empty image URL.
C14_MissingImageFailsGeneration ==
  flow \in {"suggestion", "visualization"} =>
    /\ (Done /\ MediaMissing(media)) =>
         /\ pc = "Failed"
         /\ result.error = GenerationFailedError(flow)
         /\ result.error.site = "generationFailed"
         /\ result.error.site # IncompleteTextError.site
         /\ result.error.message # IncompleteTextError.message
    /\ pc = "Succeeded" =>
         /\ ~MediaMissing(media)
         /\ ImageUrlOf(result.value).k = "str"
         /\ ImageUrlOf(result.value).v # <<>>

C14_Witness ==
  /\ flow = "suggestion"
  /\ callLog = <<"text", "image">>
  /\ TextComplete(textOutput)
  /\ media = [k |-> "obj", url |-> Absent]
  /\ pc = "Failed"
  /\ result.error = GenerationFailedError("suggestion")

\* C15: a model call that returns with an empty output fails the invocation
\* at once: in the clothing-analysis and color-analysis flows the empty-output
\* error matches no retryable keyword, so that call is the last one and no
\* delay follows it; the inspiration flow likewise fails after its single call.
C15_EmptyOutputNotRetried ==
  /\ ~MatchesRetryableKeyword(EmptyOutputError)
  /\ (flow \in RetryFlows /\ raw.k = "null") =>
       /\ pc \in {"Caught", "Failed"}
       /\ Len(callLog) = Len(thrown) + 1
       /\ Len(delays) = Len(thrown)
       /\ pc = "Caught" => error = EmptyOutputError
       /\ pc = "Failed" => result = Failed(EmptyOutputError)
  /\ (flow = "inspiration" /\ raw.k = "null") =>
       /\ pc \in {"Received", "Failed"}
       /\ callLog = <<"prompt">>
       /\ delays = <<>>
       /\ pc = "Failed" => result = Failed(EmptyInspirationError)

C15_Witness ==
  /\ flow = "clothing"
  /\ raw = Null
  /\ pc = "Failed"
  /\ callLog = <<"prompt", "prompt">>
  /\ delays = <<initialDelay>>
  /\ result.error = EmptyOutputError

(***************************************************************************)
(* The season value of a color-analysis result.                            *)
(***************************************************************************)
\* the four seasons and the undetermined sentinel, lower-cased
ClosedSeasonSet ==
  {<<"lente">>, <<"zomer">>, <<"herfst">>, <<"winter">>, <<"niet te bepalen">>}

\* C16 as stated: a color-analysis result returned as a success has a season
\* inside the closed set (read generously: compared without regard to case,
\* and any season text carrying an undetermined keyword counted as the
\* sentinel).
C16_Original ==
  (flow = "color" /\ pc = "Succeeded") =>
     \/ UndeterminedSeason(result.value)
     \/ [n \in DOMAIN result.value.seasonType.v |->
           LowerPhrase(result.value.seasonType.v[n])] \in ClosedSeasonSet

\* C16 (amended): final validation requires the season to be a string and
\* nothing more.  A color-analysis result whose season is missing or is not a
\* string is never returned as a success: the invocation fails on that call
\* without a retry.  A season string outside the four seasons and the sentinel
\* is accepted and returned as it is.
C16_SeasonMustBeString ==
  flow = "color" =>
    /\ pc = "Succeeded" => result.value.seasonType.k = "str"
    /\ (raw.k = "obj" /\ raw.seasonType.k # "str") =>
         /\ pc # "Succeeded"
         /\ Len(callLog) = Len(thrown) + 1
         /\ Len(delays) = Len(thrown)
         /\ pc = "Failed" => result.error.site \in {"zodWrap", "postProcessing"}

C16_Witness ==
  /\ flow = "color"
  /\ raw.k = "obj"
  /\ raw.seasonType = Absent
  /\ Len(PerformColorAnalysisOutputSchema(raw)) = 1
  /\ pc = "Failed"
  /\ result.error.site = "zodWrap"

(***************************************************************************)
(* The order of the phases of one color-analysis invocation.               *)
(***************************************************************************)
\* Validating 0; Prompting with its retry sub-loop 1; Normalizing 2;
\* Validating(final) 3; Succeeded or Failed 4.  An error being handled belongs
\* to the phase that raised it.
PhaseRank ==
  CASE pc = "Validating" -> 0
    [] pc \in {"Loop", "Prompting", "Retrying"} -> 1
    [] pc = "Caught" -> (IF error.name = "ZodError" THEN 3
                         ELSE IF error.name = "TypeError" THEN 2 ELSE 1)
    [] pc = "Normalizing" -> 2
    [] pc = "ValidatingFinal" -> 3
    [] OTHER -> 4

\* C18: in one color-analysis invocation the phases only advance in the order
\* Validating, Prompting (retries inside it), Normalizing, Validating(final),
\* Succeeded or Failed; once normalization or final validation has started no
\* further model call is made, whatever error they raise.
C18_PhasesInOrder ==
  [][flow = "color" =>
       /\ PhaseRank' >= PhaseRank
       /\ PhaseRank >= 2 => callLog' = callLog /\ delays' = delays
       /\ pc' = "Normalizing" => pc = "Prompting"
       /\ pc' = "ValidatingFinal" => pc = "Normalizing"
       /\ pc' = "Succeeded" => pc = "ValidatingFinal"
       /\ callLog' # callLog => pc = "Prompting"]_vars

C18_Witness ==
  /\ flow = "color"
  /\ callLog = <<"prompt", "prompt">>
  /\ delays = <<initialDelay>>
  /\ raw.k = "obj"
  /\ error.name = "ZodError"
  /\ MatchesRetryableKeyword(error)
  /\ pc = "Failed"
  /\ result.error.site = "zodWrap"

DocumentedKeywords ==
  {"503", "service unavailable", "model is overloaded", "model_is_overloaded",
   "resource has been exhausted", "rate limit", "try again"}

\* the lower-cased message of e contains a documented keyword; an error
\* without a message contains none
MatchesDocumentedKeyword(e) ==
  /\ e.message.k = "str"
  /\ \E n \in DOMAIN e.message.v : LowerPhrase(e.message.v[n]) \in DocumentedKeywords

\* the catch block has dealt with the n-th thrown error
Handled(n) == n < Len(thrown) \/ pc # "Caught"

\* the n-th thrown error was dealt with as a retryable one: a delay and a new
\* attempt followed it, or, on the last attempt, the exhausted-retries error
TreatedAsRetryable(n) ==
  IF n < maxRetries
  THEN n < Len(thrown) \/ pc \in {"Retrying", "Loop", "Prompting"}
  ELSE pc = "Failed" /\ result.error.site = "exhausted"

\* C19: an error thrown by the model call is treated as retryable if and only
\* if its lower-cased message contains one of "503", "service unavailable",
\* "model is overloaded", "model_is_overloaded", "resource has been
\* exhausted", "rate limit", "try again", whatever the case of the message; an
\* error with no message is not retryable.
C19_ClassificationMatchesKeywords ==
  flow \in RetryFlows =>
    \A n \in 1..Len(thrown) :
       Handled(n) => (TreatedAsRetryable(n) <=> MatchesDocumentedKeyword(thrown[n]))

C19_Witness ==
  /\ Len(thrown) = 3
  /\ thrown[1].message = Str(<<"Error:", "MODEL_IS_OVERLOADED", "(check quota)">>)
  /\ thrown[2].message = Str(<<"try again">>)
  /\ thrown[3].message = Absent
  /\ pc = "Failed"
  /\ result.error = thrown[3]

(***************************************************************************)
(* Overlapping invocations.                                                *)
(***************************************************************************)
\* what an invocation of flow f whose calls ended as oc, in that order, and
\* that has finished, returns or throws
OwnOutcome(f, oc) ==
  LET n == Len(oc)
      t == TryBody(f, oc[n])
  IN IF ~t.threw THEN Succeeded(t.value)
     ELSE IF t.error.name = "ZodError" THEN Failed(ValidationError(f, t.error))
     ELSE IF MatchesRetryableKeyword(t.error) THEN Failed(ExhaustedError(f, t.error))
     ELSE Failed(t.error)

\* C17: for every interleaving of two invocations of the clothing and color
\* flows, each invocation's attempt counter, current delay, number of model
\* calls and final outcome are functions of the outcomes of its own model
\* calls alone, whatever the other invocation does in between.
C17_InvocationsDoNotInterfere ==
  \A i \in Invocations :
    LET v == inv[i]
        n == Len(v.outcomes)
        done == v.pc \in {"Succeeded", "Failed"}
        \* the sleeps that have ended
        retried == Len(v.delays) - (IF v.pc = "Sleeping" THEN 1 ELSE 0)
    IN v.pc # "Idle" =>
         /\ frame[Cell(i)].attempt = retried
         /\ frame[Cell(i)].delay = initialDelay * 2^retried
         /\ \A k \in DOMAIN v.delays : v.delays[k] = initialDelay * 2^(k - 1)
         /\ v.calls = n + (IF v.pc = "Awaiting" THEN 1 ELSE 0)
         /\ v.calls <= maxRetries
         /\ Len(v.delays) = n - (IF done THEN 1 ELSE 0)
         /\ \A k \in 1..Len(v.delays) :
               v.outcomes[k].threw /\ MatchesRetryableKeyword(v.outcomes[k].error)
         /\ done => v.result = OwnOutcome(v.flow, v.outcomes)

C17_Witness ==
  /\ inv[1].pc = "Sleeping"
  /\ inv[1].flow = "clothing"
  /\ Len(inv[1].delays) = 2
  /\ inv[2].pc = "Awaiting"
  /\ inv[2].flow = "color"
  /\ inv[2].calls = 3
  /\ frame[Cell(1)] = [attempt |-> 1, delay |-> 2 * initialDelay]
  /\ frame[Cell(2)] = [attempt |-> 2, delay |-> 4 * initialDelay]

(***************************************************************************)
(* The explanation text of a result with an undetermined season.           *)
(***************************************************************************)
\* the post-processing block has run to its end on the last model output
Normalized ==
  /\ flow = "color"
  /\ raw.k = "obj"
  /\ \/ pc \in {"ValidatingFinal", "Succeeded"}
     \/ pc \in {"Caught", "Failed"} /\ error.name = "ZodError"

\* the text d is present and contains an undetermined keyword, in any case
MentionsUndetermined(d) ==
  /\ d.k = "str"
  /\ \E kw \in unanalyzableSeasonKeywords :
        \E n \in DOMAIN d.v : LowerPhrase(d.v[n]) = kw

\* C21: when the season matches an undetermined keyword, the explanation
\* submitted to final validation is the fixed fallback message if the raw
\* explanation is absent, empty or contains no undetermined keyword, and is
\* the raw explanation, as the model returned it, if it contains one.
C21_ExplanationFallback ==
  (Normalized /\ UndeterminedSeason(raw)) =>
     /\ MentionsUndetermined(raw.analysisDescription)
          => output.analysisDescription = raw.analysisDescription
     /\ ~MentionsUndetermined(raw.analysisDescription)
          => output.analysisDescription = Str(fallbackDescription)
     /\ pc = "Succeeded"
          => result.value.analysisDescription = output.analysisDescription

C21_Witness ==
  /\ flow = "color"
  /\ pc = "Succeeded"
  /\ raw.seasonType = Str(<<"GEEN GEZICHT", "zichtbaar">>)
  /\ raw.analysisDescription = Str(<<"Onvoldoende Informatie", "in de foto">>)
  /\ result.value.analysisDescription = raw.analysisDescription
  /\ result.value.analysisDescription # Str(fallbackDescription)

(***************************************************************************)
(* The entries of the validation error.                                    *)
(***************************************************************************)
\* the fields of the value o that violate the result schema of flow f, each
\* as the path of the field
ViolatedPaths(f, o) ==
  IF f = "clothing"
  THEN {<<n>> : n \in {m \in {"itemName", "itemType", "itemColor", "itemStyle",
                              "fullDescription"} : o[m].k # "str"}}
  ELSE {<<n>> : n \in {m \in {"seasonType", "analysisDescription",
                              "paletteDescription"} : o[m].k # "str"}}
       \cup (IF o.characteristics.k = "absent" THEN {<<"characteristics">>}
             ELSE {<<"characteristics", n>> :
                     n \in {m \in {"skinTone", "hairColor", "eyeColor"} :
                              o.characteristics[m].k # "str"}})
       \cup UNION {IF o[l].k = "absent" THEN {<<l>>}
                   ELSE {<<l, ToString(n), "hex">> : n \in o[l].bad} :
                   l \in {"recommendedColors", "avoidColors"}}

RECURSIVE SplitOn(_, _)
\* the pieces of the text s between the separators sep
SplitOn(s, sep) ==
  IF \A n \in DOMAIN s : s[n] # sep THEN <<s>>
  ELSE LET i == CHOOSE n \in DOMAIN s : s[n] = sep /\ \A m \in 1..(n - 1) : s[m] # sep
       IN <<SubSeq(s, 1, i - 1)>> \o SplitOn(SubSeq(s, i + 1, Len(s)), sep)

\* the entries of a validation message of flow f, and the path and the reason
\* of an entry
EntriesOf(f, msg) ==
  IF f = "clothing" THEN SplitOn(Tail(msg), ";")
  ELSE SplitOn(SubSeq(msg, 2, Len(msg) - 1), ";")

EntryPath(f, en) ==
  IF f = "clothing" THEN SubSeq(en, 1, Len(en) - 2) ELSE SubSeq(en, 2, Len(en) - 2)

EntryReason(en) == en[Len(en)]

ValidationFailed ==
  flow \in RetryFlows /\ pc = "Failed" /\ result.error.site = "zodWrap"

\* C22 as stated: the validation error of the clothing and color flows has an
\* entry for each field of the model output that violates the result schema.
C22_Original ==
  ValidationFailed =>
    LET en == EntriesOf(flow, result.error.message.v)
    IN \A p \in ViolatedPaths(flow, raw) :
          \E n \in DOMAIN en : EntryPath(flow, en[n]) = PathText(p, "root")

\* C22 (amended): a failed output validation reports every violated field,
\* not only the first: the validation error has exactly one entry, the path
\* of the field and the reason, for each field of the value submitted to the
\* parse that violates the result schema.  That value is the model output in
\* the clothing flow and the post-processed output in the color flow, where
\* violations the post-processing repaired are not reported.
C22_EveryViolatedFieldReported ==
  ValidationFailed =>
    LET en == EntriesOf(flow, result.error.message.v)
        want == ViolatedPaths(flow, output)
    IN /\ want # {}
       /\ Len(en) = Cardinality(want)
       /\ {EntryPath(flow, en[n]) : n \in DOMAIN en} = {PathText(p, "root") : p \in want}
       /\ \A n \in DOMAIN en :
             EntryReason(en[n]) \in {"Required", "Expected string, received number",
                                     hexMessage}

C22_Witness ==
  /\ flow = "clothing"
  /\ pc = "Failed"
  /\ result.error.site = "zodWrap"
  /\ raw.itemName = Absent
  /\ raw.itemColor = Num
  /\ raw.fullDescription = Absent
  /\ Len(EntriesOf(flow, result.error.message.v)) = 3

(***************************************************************************)
(* The value a successful clothing analysis returns.                       *)
(***************************************************************************)
\* C23: output validation has no effect on the value: a successful clothing
\* analysis returns exactly the output of its last model call, field for
\* field (keys the schema does not name included), and validating the returned
\* value again finds no issue and yields the same value as the first time.
C23_ValidationLeavesValueUnchanged ==
  (flow = "clothing" /\ pc = "Succeeded") =>
     /\ result.value = raw
     /\ \A n \in {"itemName", "itemType", "itemColor", "itemStyle",
                  "fullDescription", "extra"} : result.value[n] = raw[n]
     /\ output = raw
     /\ AnalyzeClothingItemOutputSchema(result.value) = <<>>
     /\ AnalyzeClothingItemOutputSchema(AnalyzeClothingItemOutputParsed(result.value)) = <<>>
     /\ AnalyzeClothingItemOutputParsed(AnalyzeClothingItemOutputParsed(result.value))
          = AnalyzeClothingItemOutputParsed(result.value)

C23_Witness ==
  /\ flow = "clothing"
  /\ pc = "Succeeded"
  /\ callLog = <<"prompt", "prompt">>
  /\ raw.extra = Str(<<"confidence 0.9">>)
  /\ result.value.extra = raw.extra
  /\ result.value.itemName = Str(<<"Blauw">>)

(***************************************************************************)
(* Termination of the retry loop.                                          *)
(***************************************************************************)
\* the loop test is never reached with the attempts used up, and the error
\* thrown after the loop is never the result
NoFallThrough ==
  /\ pc = "Loop" => attempt < maxRetries
  /\ result.error.site # "fallThrough"
  /\ result.error # FallThroughError(flow)

\* C24: when every model call and every delay completes, an invocation of the
\* clothing or color flow ends in Succeeded or Failed, and it does so inside
\* the retry loop: the error thrown after the loop is never reached, whatever
\* the outcomes of the calls are.
C24_TerminatesInsideLoop ==
  /\ []NoFallThrough
  /\ <>Done
  /\ [][Done => UNCHANGED vars]_vars

C24_Witness ==
  /\ flow \in RetryFlows
  /\ pc = "Failed"
  /\ Len(callLog) = maxRetries
  /\ attempt = maxRetries - 1
  /\ result.error.site = "exhausted"

(***************************************************************************)
(* Stray color entries of a result with an undetermined season.            *)
(***************************************************************************)
ColorLists == {"recommendedColors", "avoidColors"}

\* the raw output violates the result schema in its two color lists at most
OnlyListsInvalid(o) ==
  \A p \in ViolatedPaths("color", o) : p[1] \in ColorLists

\* C25: in the color flow the post-processing block runs before the parse, so
\* when the season matches an undetermined keyword the color entries of the
\* raw output, entries with an invalid hex code included, are discarded and
\* never cause a validation failure: no entry of a validation error names a
\* color list, and the invocation succeeds when the other fields are valid.
C25_StrayColorsNeverFailValidation ==
  (flow = "color" /\ raw.k = "obj" /\ UndeterminedSeason(raw)) =>
     /\ Normalized =>
          /\ output.recommendedColors = Arr(0, {})
          /\ output.avoidColors = Arr(0, {})
     /\ error.name = "ZodError" =>
          \A n \in DOMAIN error.issues : error.issues[n].path[1] \notin ColorLists
     /\ OnlyListsInvalid(raw) =>
          /\ pc \in {"Normalizing", "ValidatingFinal", "Succeeded"}
          /\ pc = "Succeeded" =>
               /\ result.value.recommendedColors = Arr(0, {})
               /\ result.value.avoidColors = Arr(0, {})

C25_Witness ==
  /\ flow = "color"
  /\ pc = "Succeeded"
  /\ UndeterminedSeason(raw)
  /\ raw.recommendedColors = Arr(504, {503})
  /\ raw.avoidColors = Arr(2, {1})
  /\ result.value.recommendedColors = Arr(0, {})
  /\ result.value.avoidColors = Arr(0, {})

====
